---- MODULE Spec2Model ----
(***************************************************************************)
(* A model of the ODS tracker: the relationship resolver and the snapshot  *)
(* differ of track_changes.py, the name lookup of utils.py, the change     *)
(* history kept in data/tracked_changes.json, the two reporting paths,     *)
(* extract_practice_data of download_data.py and the report of main.py,    *)
(* and the download: the paging of get_related_orgs and the dict that      *)
(* download_data.main() saves.  A listing entry is its OrgId.              *)
(*                                                                         *)
(* JSON objects are records, JSON lists are sequences.  Python's None is   *)
(* the string None for text fields and NoDate for date fields; dates are   *)
(* ISO strings in the program, compared as strings, and are numbered here  *)
(* in chronological order.  A role, relationship or date field holds a     *)
(* sequence; the field "single" of its owner names the fields that the     *)
(* directory sent as one object instead of a list of one object.           *)
(***************************************************************************)
EXTENDS Naturals, Sequences, FiniteSets, TLC

VARIABLES
    old_data,          \* the earlier snapshot handed to the differ / resolver
    new_data,          \* the later snapshot handed to the differ / resolver
    practice_changes,  \* result of detect_practice_changes
    pcn_changes,       \* result of detect_pcn_changes
    current_pcn,       \* result of get_current_pcn
    pc,                \* how far the caller has got
    files,             \* data/ncl_icb_data_<day>.json : day -> snapshot
    tracked_changes,   \* data/tracked_changes.json : the "changes" list
    today,             \* the clock, in days
    runs,              \* number of tracker runs made so far
    extracted,         \* result of extract_practice_data
    report,            \* what create_practice_pcn_report has worked out
    pages,             \* the listing as the directory serves it, page by page
    current_url,       \* the page get_related_orgs requests next
    all_orgs,          \* the list get_related_orgs accumulates and returns
    request_error,     \* get_related_orgs has caught and logged a RequestException
    full_data          \* the dict download_data.main() saves

\* the state of a download
download_vars == <<pages, current_url, all_orgs, request_error, full_data>>

vars == <<old_data, new_data, practice_changes, pcn_changes, current_pcn, pc,
          files, tracked_changes, today, runs, extracted, report, download_vars>>

----------------------------------------------------------------------------
(* Bounds *)

MaxRels == 2
MaxDate == 2
MaxDays == 2
MaxRuns == 3
MaxPages == 2
MaxPageLen == 2

----------------------------------------------------------------------------
(* Values *)

None == "None"
NoDate == 0

Codes == {"A", "B", "C"}

Role(id, primary) == [id |-> id, primaryRole |-> primary]

Interval(start, end) == [Start |-> start, End |-> end]

Rel(target, role, status, dates) ==
    [id     |-> "RE8",
     Target |-> [OrgId |-> target, PrimaryRoleId |-> role],
     Status |-> status,
     Date   |-> dates,
     single |-> {}]

Organisation(name, status, changed, roles, rels) ==
    [Name |-> name, Status |-> status, LastChangeDate |-> changed,
     Roles |-> roles, Rels |-> rels, single |-> {}]

\* old_orgs.get(ods_code, {}).get("Organisation", {}) for a code that is absent:
\* the empty dict, every .get of which gives its default.
EmptyOrg == Organisation(None, None, NoDate, <<>>, <<>>)

Snapshot(orgs) == [organisations |-> orgs]

OrgOf(data, ods_code) ==
    IF ods_code \in DOMAIN data.organisations
    THEN data.organisations[ods_code]
    ELSE EmptyOrg

----------------------------------------------------------------------------
(* Relationship resolver: track_changes.get_current_pcn *)

\* the candidate test without the date condition
IsCandidate_NoEndCheck(rel) ==
    /\ rel.Target.PrimaryRoleId = "RO272"
    /\ rel.Status = "Active"

\* the condition of the if inside the loop
IsCandidate(rel) ==
    /\ rel.Target.PrimaryRoleId = "RO272"
    /\ rel.Status = "Active"
    /\ ~ \E i \in DOMAIN rel.Date : rel.Date[i].End # NoDate

RECURSIVE ScanRels(_, _)
ScanRels(rels, i) ==
    IF i > Len(rels) THEN None
    ELSE IF IsCandidate(rels[i]) THEN rels[i].Target.OrgId
    ELSE ScanRels(rels, i + 1)

\* the date condition is evaluated on a Date that is one object: the generator
\* iterates the keys of the dict and d.get raises on a string
DateRaises(rel) ==
    /\ rel.Target.PrimaryRoleId = "RO272"
    /\ rel.Status = "Active"
    /\ "Date" \in rel.single

\* the loop raises before it returns
RECURSIVE ScanRaises(_, _)
ScanRaises(rels, i) ==
    IF i > Len(rels) THEN FALSE
    ELSE IF DateRaises(rels[i]) THEN TRUE
    ELSE IF IsCandidate(rels[i]) THEN FALSE
    ELSE ScanRaises(rels, i + 1)

\* a Rel that is one object is wrapped in a list; an exception gives None
get_current_pcn(org_data) ==
    IF ScanRaises(org_data.Rels, 1) THEN None ELSE ScanRels(org_data.Rels, 1)

\* utils.get_pcn_name
get_pcn_name(data, pcn_ods) ==
    IF pcn_ods = None THEN None ELSE OrgOf(data, pcn_ods).Name

----------------------------------------------------------------------------
(* Snapshot differ: track_changes.detect_practice_changes / detect_pcn_changes *)

\* any(role.get("id") == "RO76" for role in new_org["Roles"]["Role"])
IsPractice(org) == \E i \in DOMAIN org.Roles : org.Roles[i].id = "RO76"

\* any(role.get("id") == "RO272" and role.get("primaryRole", False) for role in ...)
IsPcn(org) ==
    \E i \in DOMAIN org.Roles : org.Roles[i].id = "RO272" /\ org.Roles[i].primaryRole

\* the record with the code in place of the name
NewRecord_CodeAsName(type, ods_code, org) ==
    [type |-> type, ods_code |-> ods_code, name |-> ods_code,
     date_of_change |-> org.LastChangeDate]

NewRecord(type, ods_code, org) ==
    [type |-> type, ods_code |-> ods_code, name |-> org.Name,
     date_of_change |-> org.LastChangeDate]

\* the record dated from the old snapshot
StatusRecord_OldDate(ods_code, old_org, new_org) ==
    [type |-> "status_change", ods_code |-> ods_code, name |-> new_org.Name,
     old_status |-> old_org.Status, new_status |-> new_org.Status,
     date_of_change |-> old_org.LastChangeDate]

StatusRecord(ods_code, old_org, new_org) ==
    [type |-> "status_change", ods_code |-> ods_code, name |-> new_org.Name,
     old_status |-> old_org.Status, new_status |-> new_org.Status,
     date_of_change |-> new_org.LastChangeDate]

\* the record with both names looked up in the old snapshot
PcnChangeRecord_NamesFromOld(old, new, ods_code, new_org, old_pcn, new_pcn) ==
    [type |-> "pcn_change", ods_code |-> ods_code, name |-> new_org.Name,
     old_pcn |-> old_pcn, old_pcn_name |-> get_pcn_name(old, old_pcn),
     new_pcn |-> new_pcn, new_pcn_name |-> get_pcn_name(old, new_pcn),
     date_of_change |-> new_org.LastChangeDate]

PcnChangeRecord(old, new, ods_code, new_org, old_pcn, new_pcn) ==
    [type |-> "pcn_change", ods_code |-> ods_code, name |-> new_org.Name,
     old_pcn |-> old_pcn, old_pcn_name |-> get_pcn_name(old, old_pcn),
     new_pcn |-> new_pcn, new_pcn_name |-> get_pcn_name(new, new_pcn),
     date_of_change |-> new_org.LastChangeDate]

\* the class filter at the head of the loop body: "Skip if not a practice"
PracticeFilter(old_org, new_org) == IsPractice(new_org)

\* "Skip if not a PCN"
PcnFilter(old_org, new_org) == IsPcn(new_org)

\* a status test that looks at the new snapshot only
StatusChanged_NotActive(old_org, new_org) == new_org.Status # "Active"

\* old_org.get("Status") != new_org.get("Status")
StatusChanged(old_org, new_org) == old_org.Status # new_org.Status

\* a membership test on the raw relationship lists
MembershipChanged_RawRels(old_org, new_org) == old_org.Rels # new_org.Rels

\* old_pcn != new_pcn, each resolved by get_current_pcn
MembershipChanged(old_org, new_org) ==
    get_current_pcn(old_org) # get_current_pcn(new_org)

\* the class test reads a Role that is one object: the generator iterates the
\* keys of the dict and role.get raises on a string
FilterRaises(new_org) == "Role" \in new_org.single

\* a pass over these snapshots raises instead of returning
DifferRaises(old, new) ==
    \E c \in (DOMAIN old.organisations) \cup (DOMAIN new.organisations) :
        FilterRaises(OrgOf(new, c))

\* the iteration without the continue after the "new" record
PracticeStep_NoContinue(old, new, ods_code) ==
    LET old_org == OrgOf(old, ods_code)
        new_org == OrgOf(new, ods_code)
        old_pcn == get_current_pcn(old_org)
        new_pcn == get_current_pcn(new_org)
    IN  IF ~ PracticeFilter(old_org, new_org) THEN <<>>
        ELSE (IF old_org = EmptyOrg
              THEN << NewRecord("new_practice", ods_code, new_org) >> ELSE <<>>)
             \o
             (IF StatusChanged(old_org, new_org)
              THEN << StatusRecord(ods_code, old_org, new_org) >> ELSE <<>>)
             \o
             (IF MembershipChanged(old_org, new_org)
              THEN << PcnChangeRecord(old, new, ods_code, new_org, old_pcn, new_pcn) >>
              ELSE <<>>)

\* one iteration of the loop of detect_practice_changes: the records it appends
PracticeStep(old, new, ods_code) ==
    LET old_org == OrgOf(old, ods_code)
        new_org == OrgOf(new, ods_code)
        old_pcn == get_current_pcn(old_org)
        new_pcn == get_current_pcn(new_org)
    IN  IF ~ PracticeFilter(old_org, new_org) THEN <<>>
        ELSE IF old_org = EmptyOrg
             THEN << NewRecord("new_practice", ods_code, new_org) >>
        ELSE IF new_org = EmptyOrg
             THEN << NewRecord("closed_practice", ods_code, old_org) >>
        ELSE (IF StatusChanged(old_org, new_org)
              THEN << StatusRecord(ods_code, old_org, new_org) >> ELSE <<>>)
             \o
             (IF MembershipChanged(old_org, new_org)
              THEN << PcnChangeRecord(old, new, ods_code, new_org, old_pcn, new_pcn) >>
              ELSE <<>>)

\* one iteration of the loop of detect_pcn_changes
PcnStep(old, new, ods_code) ==
    LET old_org == OrgOf(old, ods_code)
        new_org == OrgOf(new, ods_code)
    IN  IF ~ PcnFilter(old_org, new_org) THEN <<>>
        ELSE IF old_org = EmptyOrg
             THEN << NewRecord("new_pcn", ods_code, new_org) >>
        ELSE IF new_org = EmptyOrg
             THEN << NewRecord("closed_pcn", ods_code, old_org) >>
        ELSE IF StatusChanged(old_org, new_org)
             THEN << StatusRecord(ods_code, old_org, new_org) >>
        ELSE <<>>

\* set(old_orgs.keys()) | set(new_orgs.keys())
all_ods_codes(old, new) == DOMAIN old.organisations \cup DOMAIN new.organisations

\* The for loop runs over a Python set of strings, whose iteration order is
\* not fixed by the program: an order is any arrangement of the set.
Orders(S) ==
    {o \in [1..Cardinality(S) -> S] : \A i, j \in DOMAIN o : i # j => o[i] # o[j]}

RECURSIVE PracticeLoop(_, _, _, _)
PracticeLoop(old, new, order, i) ==
    IF i > Len(order) THEN <<>>
    ELSE PracticeStep(old, new, order[i]) \o PracticeLoop(old, new, order, i + 1)

RECURSIVE PcnLoop(_, _, _, _)
PcnLoop(old, new, order, i) ==
    IF i > Len(order) THEN <<>>
    ELSE PcnStep(old, new, order[i]) \o PcnLoop(old, new, order, i + 1)

detect_practice_changes(old, new, order) == PracticeLoop(old, new, order, 1)

detect_pcn_changes(old, new, order) == PcnLoop(old, new, order, 1)

----------------------------------------------------------------------------
(* Change aggregator and entry point: track_changes.update_tracked_changes, *)
(* load_latest_data, load_previous_data, main                               *)

RECURSIVE CountType(_, _)
\* len([c for c in changes if c["type"] == type])
CountType(changes, type) ==
    IF changes = <<>> THEN 0
    ELSE (IF Head(changes).type = type THEN 1 ELSE 0) + CountType(Tail(changes), type)

\* the summary with the network "new" count taken over the practice kind
Summary_PcnNewMiscounted(practice, pcn) ==
    [total_changes |-> Len(practice) + Len(pcn),
     practice_changes |->
        [total  |-> Len(practice),
         new    |-> CountType(practice, "new_practice"),
         closed |-> CountType(practice, "closed_practice"),
         status |-> CountType(practice, "status_change"),
         pcn    |-> CountType(practice, "pcn_change")],
     pcn_changes |->
        [total  |-> Len(pcn),
         new    |-> CountType(pcn, "new_practice"),
         closed |-> CountType(pcn, "closed_pcn"),
         status |-> CountType(pcn, "status_change")]]

Summary(practice, pcn) ==
    [total_changes |-> Len(practice) + Len(pcn),
     practice_changes |->
        [total  |-> Len(practice),
         new    |-> CountType(practice, "new_practice"),
         closed |-> CountType(practice, "closed_practice"),
         status |-> CountType(practice, "status_change"),
         pcn    |-> CountType(practice, "pcn_change")],
     pcn_changes |->
        [total  |-> Len(pcn),
         new    |-> CountType(pcn, "new_pcn"),
         closed |-> CountType(pcn, "closed_pcn"),
         status |-> CountType(pcn, "status_change")]]

HistoryEntry(practice, pcn, current_file, date) ==
    [date |-> date, data_file |-> current_file,
     summary |-> Summary(practice, pcn),
     practice_changes |-> practice, pcn_changes |-> pcn]

\* the condition under which an entry is appended and the file rewritten
HasChanges(practice, pcn) == practice # <<>> \/ pcn # <<>>

\* an aggregator that skips a snapshot already in the history
update_tracked_changes_Dedup(tracked, practice, pcn, current_file, date) ==
    IF /\ HasChanges(practice, pcn)
       /\ ~ \E i \in DOMAIN tracked : tracked[i].data_file = current_file
    THEN Append(tracked, HistoryEntry(practice, pcn, current_file, date))
    ELSE tracked

\* the "changes" list of data/tracked_changes.json after the call
update_tracked_changes(tracked, practice, pcn, current_file, date) ==
    IF HasChanges(practice, pcn)
    THEN Append(tracked, HistoryEntry(practice, pcn, current_file, date))
    ELSE tracked

\* max(data_files): the files are named by day, so the greatest name is the latest day
latest_file(fs) == CHOOSE d \in DOMAIN fs : \A e \in DOMAIN fs : e <= d

\* sorted_files[sorted_files.index(current_file) - 1]; for the first file of the
\* sorted list the index is -1, which in Python names the last file
previous_file(fs, current_file) ==
    IF \E d \in DOMAIN fs : d < current_file
    THEN CHOOSE d \in DOMAIN fs :
            /\ d < current_file
            /\ \A e \in DOMAIN fs : e < current_file => e <= d
    ELSE CHOOSE d \in DOMAIN fs : \A e \in DOMAIN fs : e <= d

\* load_latest_data returns (None, None)
NoLatest(fs) == DOMAIN fs = {}

\* a test for a previous file that asks only for some data file
NoPrevious_AnyFile(fs, current_file) == DOMAIN fs = {}

\* load_previous_data returns (None, None)
NoPrevious(fs, current_file) ==
    \/ Cardinality(DOMAIN fs) < 2
    \/ ~ \E d \in DOMAIN fs : d < current_file

----------------------------------------------------------------------------
(* Reporting paths: download_data.extract_practice_data and                *)
(* main.create_practice_pcn_report                                         *)

\* extract_practice_data has not been called
NotExtracted == [returned |-> "nothing", CurrentPCNCode |-> None]

\* extract_practice_data returns None: not a practice, or an exception was caught
ExtractedNone == [returned |-> "None", CurrentPCNCode |-> None]

\* roles and rels are wrapped in a list when they are one object, a
\* relationship's Date is not; pcn_rel is the first relationship that passes
extract_practice_data(org_data) ==
    IF ~ IsPractice(org_data) THEN ExtractedNone
    ELSE IF ScanRaises(org_data.Rels, 1) THEN ExtractedNone
    ELSE [returned |-> "row", CurrentPCNCode |-> ScanRels(org_data.Rels, 1)]

\* the pcns dict of the report: the codes whose roles have a primary RO272
PcnsOf(data) ==
    {c \in DOMAIN data.organisations : IsPcn(data.organisations[c])}

\* next((d.get("Start") for d in rel_dates if isinstance(d, dict)), None)
start_date(rel) == IF rel.Date = <<>> THEN NoDate ELSE rel.Date[1].Start

\* next((d.get("End") for d in rel_dates if isinstance(d, dict)), None)
end_date(rel) == IF rel.Date = <<>> THEN NoDate ELSE rel.Date[1].End

\* the scan of one practice before its first relationship
ScanStart ==
    [current_pcn |-> None, current_pcn_date |-> NoDate, joined |-> <<>>,
     raised |-> FALSE]

\* current_pcn = target_ods; current_pcn_date = start_date; and the append to
\* the network's member_practices
Selected(st, rel) ==
    [st EXCEPT !.current_pcn = rel.Target.OrgId,
               !.current_pcn_date = start_date(rel),
               !.joined = Append(@, [pcn |-> rel.Target.OrgId,
                                     start_date |-> start_date(rel)])]

\* the body of "for rel in pcn_rels": start_date > current_pcn_date compares a
\* string with None, a TypeError, when the selected candidate has no start date
ReportStep(pcns, rel, st) ==
    IF rel.id # "RE8" \/ rel.Target.OrgId \notin pcns THEN st
    ELSE IF ~ (rel.Status = "Active" /\ end_date(rel) = NoDate) THEN st
    ELSE IF st.current_pcn = None THEN Selected(st, rel)
    ELSE IF start_date(rel) = NoDate THEN st
    ELSE IF st.current_pcn_date = NoDate THEN [st EXCEPT !.raised = TRUE]
    ELSE IF start_date(rel) > st.current_pcn_date THEN Selected(st, rel)
    ELSE st

RECURSIVE ScanPcnRels(_, _, _, _)
ScanPcnRels(pcns, rels, i, st) ==
    IF i > Len(rels) \/ st.raised THEN st
    ELSE ScanPcnRels(pcns, rels, i + 1, ReportStep(pcns, rels[i], st))

\* the scan of the practice with this code
PracticeScan(data, ods_code) ==
    ScanPcnRels(PcnsOf(data), data.organisations[ods_code].Rels, 1, ScanStart)

\* the codes the second loop treats as practices
PracticesOf(data) ==
    {c \in DOMAIN data.organisations : IsPractice(data.organisations[c])}

\* the entries the practices append, in the order of the loop, to the
\* member_practices of one network
RECURSIVE MembersOf(_, _, _, _)
MembersOf(data, order, i, pcn) ==
    IF i > Len(order) THEN <<>>
    ELSE LET c == order[i]
             Joins(e) == e.pcn = pcn
             js == IF c \in PracticesOf(data)
                   THEN SelectSeq(PracticeScan(data, c).joined, Joins)
                   ELSE <<>>
         IN  [k \in 1..Len(js) |-> [ods_code |-> c, start_date |-> js[k].start_date]]
             \o MembersOf(data, order, i + 1, pcn)

\* create_practice_pcn_report has not been called
NoReport == [state |-> "nothing", practices |-> <<>>, member_practices |-> <<>>]

\* the call raised: main.py has no handler, no workbook is written
ReportRaised == [state |-> "raised", practices |-> <<>>, member_practices |-> <<>>]

\* the 'Current PCN Code' of every practice row and the member_practices of
\* every network, with the organisations visited in the order of the dict
create_practice_pcn_report(data, order) ==
    IF DOMAIN data.organisations = {} THEN NoReport
    ELSE IF \E c \in PracticesOf(data) : PracticeScan(data, c).raised THEN ReportRaised
    ELSE [state |-> "written",
          practices |-> [c \in PracticesOf(data) |-> PracticeScan(data, c).current_pcn],
          member_practices |-> [p \in PcnsOf(data) |-> MembersOf(data, order, 1, p)]]

----------------------------------------------------------------------------
(* Inputs: organisation records and snapshots *)

Statuses == {"Active", "Inactive"}

\* display names: an organisation's name as of each last-changed date
Names ==
    [A |-> <<"A-1", "A-2", "A-3", "A-4">>,
     B |-> <<"B-1", "B-2", "B-3", "B-4">>,
     C |-> <<"C-1", "C-2", "C-3", "C-4">>]

NameOf(code, changed) == Names[code][changed]

GpRoles      == << Role("RO76", TRUE) >>
PcnRoles     == << Role("RO272", TRUE) >>
OtherRoles   == << Role("RO177", TRUE) >>
GpAlsoPcn    == << Role("RO76", TRUE), Role("RO272", FALSE) >>
RoleLists    == {GpRoles, PcnRoles, OtherRoles, GpAlsoPcn}

SeqsUpTo(S, n) == UNION {[1..k -> S] : k \in 0..n}

\* date lists of a relationship: none, one interval (open with any or no start,
\* or ended), or an open and an ended interval in either order
OpenIntervals == {Interval(s, NoDate) : s \in 0..MaxDate}
EndedInterval == Interval(1, MaxDate)
DateLists ==
    {<<>>} \cup {<<i>> : i \in OpenIntervals \cup {EndedInterval}}
           \cup {<<Interval(1, NoDate), EndedInterval>>,
                 <<EndedInterval, Interval(1, NoDate)>>}

\* relationships of the practice being resolved: to network B, to network C,
\* or to B recorded under a primary role that is not the network role
ResolveRels ==
    {Rel(t[1], t[2], st, ds) :
        t \in {<<"B", "RO272">>, <<"C", "RO272">>, <<"B", "RO177">>},
        st \in Statuses, ds \in DateLists}

PcnOrg(code) == Organisation(NameOf(code, 1), "Active", 1, PcnRoles, <<>>)

\* a snapshot from a choice, per code, of a record or EmptyOrg (code absent)
MakeSnapshot(f) ==
    Snapshot([c \in {c \in Codes : f[c] # EmptyOrg} |-> f[c]])

NoSnapshot == Snapshot(<<>>)

ResolveSnapshots ==
    {MakeSnapshot([A |-> Organisation(NameOf("A", 1), "Active", 1, GpRoles, rels),
                   B |-> PcnOrg("B"),
                   C |-> c]) :
        rels \in SeqsUpTo(ResolveRels, MaxRels), c \in {PcnOrg("C"), EmptyOrg}}

\* relationship lists of the organisations that are diffed
RelB      == Rel("B", "RO272", "Active", <<Interval(1, NoDate)>>)
RelC      == Rel("C", "RO272", "Active", <<Interval(2, NoDate)>>)
RelBEnded == Rel("B", "RO272", "Active", <<Interval(1, 2)>>)
DiffRelLists ==
    {<<>>, <<RelB>>, <<RelC>>, <<RelBEnded>>, <<RelB, RelC>>, <<RelBEnded, RelC>>}

\* every record the organisation with this code may have in a snapshot
SubjectOrgs(code) ==
    {Organisation(NameOf(code, d), st, d, roles, rels) :
        d \in 1..MaxDate, st \in Statuses, roles \in {GpRoles, GpAlsoPcn},
        rels \in DiffRelLists}
    \cup
    {Organisation(NameOf(code, d), st, d, roles, <<>>) :
        d \in 1..MaxDate, st \in Statuses, roles \in {PcnRoles, OtherRoles}}

\* a few records per code, for snapshots with several entities of one class
SmallOrgs(code) ==
    {Organisation(NameOf(code, 1), st, 1, GpRoles, <<>>) : st \in Statuses}
    \cup {PcnOrg(code)}

Absent(S) == S \cup {EmptyOrg}

DiffSnapshots ==
    {MakeSnapshot(f) :
        f \in [A : Absent(SubjectOrgs("A")),
               B : Absent({PcnOrg("B")}),
               C : {PcnOrg("C")}]
           \cup
           [A : Absent(SmallOrgs("A")),
            B : Absent(SmallOrgs("B")),
            C : Absent(SmallOrgs("C"))]}

\* the snapshots a download may store on one day
TrackSnapshots ==
    {MakeSnapshot([A |-> Organisation(NameOf("A", 1), st, 1, GpRoles, <<>>),
                   B |-> b, C |-> EmptyOrg]) :
        st \in Statuses, b \in {PcnOrg("B"), EmptyOrg}}
    \cup
    {MakeSnapshot([A |-> [Organisation(NameOf("A", 1), "Active", 1, GpRoles, <<>>)
                            EXCEPT !.single = {"Role"}],
                   B |-> b, C |-> EmptyOrg]) :
        b \in {PcnOrg("B"), EmptyOrg}}

\* date lists of the relationships the report paths read
ReportDateLists ==
    {<<i>> : i \in OpenIntervals}
        \cup {<<EndedInterval>>, <<Interval(1, NoDate), EndedInterval>>}

\* the same relationship of another kind, and with its Date sent as one object
OfKind(rel, id) == [rel EXCEPT !.id = id]
DateAsObject(rel) == [rel EXCEPT !.single = {"Date"}]

\* relationships of the practice the report paths resolve
ReportRels ==
    {Rel(t, "RO272", st, ds) :
        t \in {"B", "C"}, st \in Statuses, ds \in ReportDateLists}
    \cup {OfKind(RelB, "RE6"), Rel("B", "RO177", "Active", <<Interval(1, NoDate)>>)}
    \cup {DateAsObject(Rel("B", "RO272", "Active", <<i>>)) :
              i \in {Interval(1, NoDate), EndedInterval}}

\* the fields of an organisation that may have been sent as one object: a
\* field with one element, and a single relationship of an organisation whose
\* single role came as one object comes as one object too
Singles(org) ==
    {f \in {{}, {"Role"}, {"Role", "Rel"}} :
        /\ "Role" \in f => Len(org.Roles) = 1
        /\ "Rel" \in f <=> ("Role" \in f /\ Len(org.Rels) = 1)}

ReportSubjects ==
    {o \in {[Organisation(NameOf("A", 1), "Active", 1, GpRoles, rels)
                EXCEPT !.single = f] :
                rels \in SeqsUpTo(ReportRels, MaxRels),
                f \in {{}, {"Role"}, {"Role", "Rel"}}} :
        o.single \in Singles(o)}

ReportSnapshots ==
    {MakeSnapshot([A |-> a, B |-> PcnOrg("B"), C |-> c]) :
        a \in ReportSubjects, c \in {PcnOrg("C"), EmptyOrg}}

----------------------------------------------------------------------------
(* Download: ODSClient.get_related_orgs and download_data.main *)

\* one page of the listing: the organisations of the response body (each an
\* OrgId) and whether the response has a next-page header
Page(orgs, next_page) == [Organisations |-> orgs, next_page |-> next_page]

\* the listings the directory may serve: the link of a page leads to the page
\* after it and the last page has none
Listings ==
    {ps \in SeqsUpTo({Page(orgs, n) : orgs \in SeqsUpTo({"A", "B"}, MaxPageLen),
                                      n \in BOOLEAN},
                     MaxPages) :
        ps # <<>> /\ ~ ps[Len(ps)].next_page}

\* main() has not built the dict
NoData == [total_organisations |-> 0, organisations |-> {}, saved |-> FALSE]

\* no download is going on
NoDownload ==
    /\ pages = <<>>
    /\ current_url = 0
    /\ all_orgs = <<>>
    /\ request_error = FALSE
    /\ full_data = NoData

\* a loop that leaves only at a response without next-page header
AfterResponse_EmptyPageGoesOn(i) ==
    LET orgs == pages[i].Organisations
    IN  /\ all_orgs' = all_orgs \o orgs
        /\ IF ~ pages[i].next_page
           THEN pc' = "returned" /\ UNCHANGED current_url
           ELSE pc' = "paging" /\ current_url' = i + 1

\* the body of the while loop for the response to the request of page i
AfterResponse(i) ==
    LET orgs == pages[i].Organisations
    IN  IF orgs = <<>>
        THEN /\ pc' = "returned"
             /\ UNCHANGED <<all_orgs, current_url>>
        ELSE /\ all_orgs' = all_orgs \o orgs
             /\ IF ~ pages[i].next_page
                THEN pc' = "returned" /\ UNCHANGED current_url
                ELSE pc' = "paging" /\ current_url' = i + 1

\* the dict main() builds from the listing when the detail requests of the
\* entries at the positions failed return None
FullData(related_orgs, failed) ==
    [total_organisations |-> Len(related_orgs),
     organisations |-> {related_orgs[i] : i \in DOMAIN related_orgs \ failed},
     saved |-> TRUE]

----------------------------------------------------------------------------
(* Resolver runs: get_current_pcn applied to the practice of a snapshot *)

InitResolve ==
    /\ new_data \in ResolveSnapshots
    /\ old_data = NoSnapshot
    /\ practice_changes = <<>>
    /\ pcn_changes = <<>>
    /\ current_pcn = None
    /\ pc = "start"
    /\ files = <<>>
    /\ tracked_changes = <<>>
    /\ today = 1
    /\ runs = 0
    /\ extracted = NotExtracted
    /\ report = NoReport
    /\ NoDownload

ResolveCurrent ==
    /\ pc = "start"
    /\ current_pcn' = get_current_pcn(OrgOf(new_data, "A"))
    /\ pc' = "resolved"
    /\ UNCHANGED <<old_data, new_data, practice_changes, pcn_changes,
                   files, tracked_changes, today, runs, extracted, report,
                   download_vars>>

NextResolve == ResolveCurrent

SpecResolve == InitResolve /\ [][NextResolve]_vars

----------------------------------------------------------------------------
(* The three resolutions of current membership, each applied to the same   *)
(* snapshot: track_changes, download_data and the report of main.py        *)

InitReport ==
    /\ new_data \in ReportSnapshots
    /\ old_data = NoSnapshot
    /\ practice_changes = <<>>
    /\ pcn_changes = <<>>
    /\ current_pcn = None
    /\ pc = "start"
    /\ files = <<>>
    /\ tracked_changes = <<>>
    /\ today = 1
    /\ runs = 0
    /\ extracted = NotExtracted
    /\ report = NoReport
    /\ NoDownload

ExtractPractice ==
    /\ pc = "resolved"
    /\ extracted' = extract_practice_data(OrgOf(new_data, "A"))
    /\ pc' = "extracted"
    /\ UNCHANGED <<old_data, new_data, practice_changes, pcn_changes, current_pcn,
                   files, tracked_changes, today, runs, report,
                   download_vars>>

CreateReport ==
    /\ pc = "extracted"
    /\ \E order \in Orders(DOMAIN new_data.organisations) :
          report' = create_practice_pcn_report(new_data, order)
    /\ pc' = "reported"
    /\ UNCHANGED <<old_data, new_data, practice_changes, pcn_changes, current_pcn,
                   files, tracked_changes, today, runs, extracted,
                   download_vars>>

NextReport == ResolveCurrent \/ ExtractPractice \/ CreateReport

SpecReport == InitReport /\ [][NextReport]_vars

----------------------------------------------------------------------------
(* A download: get_related_orgs request by request, then the rest of       *)
(* download_data.main()                                                    *)

rest == <<old_data, new_data, practice_changes, pcn_changes, current_pcn,
          files, tracked_changes, today, runs, extracted, report>>

InitDownload ==
    /\ old_data = NoSnapshot
    /\ new_data = NoSnapshot
    /\ practice_changes = <<>>
    /\ pcn_changes = <<>>
    /\ current_pcn = None
    /\ pc = "start"
    /\ files = <<>>
    /\ tracked_changes = <<>>
    /\ today = 1
    /\ runs = 0
    /\ extracted = NotExtracted
    /\ report = NoReport
    /\ pages \in Listings
    /\ current_url = 1
    /\ all_orgs = <<>>
    /\ request_error = FALSE
    /\ full_data = NoData

\* the request before the loop succeeds; the first pass of the loop reads it
FirstRequest ==
    /\ pc = "start"
    /\ AfterResponse(1)
    /\ UNCHANGED <<rest, pages, request_error, full_data>>

\* a later pass of the loop: the request of current_url succeeds
NextRequest ==
    /\ pc = "paging"
    /\ AfterResponse(current_url)
    /\ UNCHANGED <<rest, pages, request_error, full_data>>

\* a request raises RequestException: the handler logs it and all_orgs is
\* returned as it is
RequestFails ==
    /\ pc \in {"start", "paging"}
    /\ pc' = "returned"
    /\ request_error' = TRUE
    /\ UNCHANGED <<rest, pages, current_url, all_orgs, full_data>>

\* download_data.main() after get_related_orgs: the detail request of any
\* entry may fail; the dict is saved
SaveDownload ==
    /\ pc = "returned"
    /\ \E failed \in SUBSET DOMAIN all_orgs :
          full_data' = FullData(all_orgs, failed)
    /\ pc' = "saved"
    /\ UNCHANGED <<rest, pages, current_url, all_orgs, request_error>>

NextDownload == FirstRequest \/ NextRequest \/ RequestFails \/ SaveDownload

SpecDownload == InitDownload /\ [][NextDownload]_vars

\* the steps of a running download are taken
SpecDownloadFair == SpecDownload /\ WF_vars(NextDownload)

----------------------------------------------------------------------------
(* Differ runs: the two passes, in the order main() makes them *)

InitDiff ==
    /\ old_data \in DiffSnapshots
    /\ new_data \in DiffSnapshots
    /\ practice_changes = <<>>
    /\ pcn_changes = <<>>
    /\ current_pcn = None
    /\ pc = "start"
    /\ files = <<>>
    /\ tracked_changes = <<>>
    /\ today = 1
    /\ runs = 0
    /\ extracted = NotExtracted
    /\ report = NoReport
    /\ NoDownload

\* a practice pass that looks the codes up with setdefault, which stores an
\* empty record in the old snapshot for every code it lacks
DetectPractice_SetDefault ==
    /\ pc = "start"
    /\ \E order \in Orders(all_ods_codes(old_data, new_data)) :
          practice_changes' = detect_practice_changes(old_data, new_data, order)
    /\ old_data' = Snapshot([c \in all_ods_codes(old_data, new_data) |->
                                OrgOf(old_data, c)])
    /\ pc' = "practice_done"
    /\ UNCHANGED <<new_data, pcn_changes, current_pcn,
                   files, tracked_changes, today, runs, extracted, report,
                   download_vars>>

DetectPractice ==
    /\ pc = "start"
    /\ \E order \in Orders(all_ods_codes(old_data, new_data)) :
          practice_changes' = detect_practice_changes(old_data, new_data, order)
    /\ pc' = "practice_done"
    /\ UNCHANGED <<old_data, new_data, pcn_changes, current_pcn,
                   files, tracked_changes, today, runs, extracted, report,
                   download_vars>>

DetectPcn ==
    /\ pc = "practice_done"
    /\ \E order \in Orders(all_ods_codes(old_data, new_data)) :
          pcn_changes' = detect_pcn_changes(old_data, new_data, order)
    /\ pc' = "done"
    /\ UNCHANGED <<old_data, new_data, practice_changes, current_pcn,
                   files, tracked_changes, today, runs, extracted, report,
                   download_vars>>

\* update_tracked_changes(changes, latest_file), as main() calls it after the
\* two passes; the later snapshot is today's file
Aggregate ==
    /\ pc = "done"
    /\ tracked_changes' =
          update_tracked_changes(tracked_changes, practice_changes, pcn_changes,
                                 today, today)
    /\ pc' = "aggregated"
    /\ UNCHANGED <<old_data, new_data, practice_changes, pcn_changes, current_pcn,
                   files, today, runs, extracted, report,
                   download_vars>>

NextDiff == DetectPractice \/ DetectPcn \/ Aggregate

SpecDiff == InitDiff /\ [][NextDiff]_vars

----------------------------------------------------------------------------
(* The tracker: snapshots are saved day by day and main() compares the     *)
(* latest two                                                              *)

Init ==
    /\ old_data = NoSnapshot
    /\ new_data = NoSnapshot
    /\ practice_changes = <<>>
    /\ pcn_changes = <<>>
    /\ current_pcn = None
    /\ pc = "start"
    /\ files = <<>>
    /\ tracked_changes = <<>>
    /\ today = 1
    /\ runs = 0
    /\ extracted = NotExtracted
    /\ report = NoReport
    /\ NoDownload

\* the clock moves to the next day
Tick ==
    /\ today < MaxDays
    /\ today' = today + 1
    /\ UNCHANGED <<old_data, new_data, practice_changes, pcn_changes, current_pcn,
                   pc, files, tracked_changes, runs, extracted, report,
                   download_vars>>

\* download_data.save_raw_data(full_data, "ncl_icb_data_<today>.json")
save_raw_data ==
    /\ \E data \in TrackSnapshots :
          files' = [d \in DOMAIN files \cup {today} |->
                        IF d = today THEN data ELSE files[d]]
    /\ UNCHANGED <<old_data, new_data, practice_changes, pcn_changes, current_pcn,
                   pc, tracked_changes, today, runs, extracted, report,
                   download_vars>>

\* track_changes.main() when a snapshot is missing: both early returns
MainAborts ==
    /\ runs < MaxRuns
    /\ NoLatest(files) \/ NoPrevious(files, latest_file(files))
    /\ runs' = runs + 1
    /\ pc' = "aborted"
    /\ practice_changes' = <<>>
    /\ pcn_changes' = <<>>
    /\ UNCHANGED <<old_data, new_data, current_pcn, files, tracked_changes, today,
                   extracted, report,
                   download_vars>>

\* track_changes.main() with two snapshots: load, diff both classes, aggregate
MainCompares ==
    /\ runs < MaxRuns
    /\ ~ NoLatest(files)
    /\ ~ NoPrevious(files, latest_file(files))
    /\ ~ DifferRaises(files[previous_file(files, latest_file(files))],
                      files[latest_file(files)])
    /\ LET current  == latest_file(files)
           previous == previous_file(files, current)
       IN  /\ new_data' = files[current]
           /\ old_data' = files[previous]
           /\ \E o1, o2 \in Orders(all_ods_codes(files[previous], files[current])) :
                 /\ practice_changes' =
                        detect_practice_changes(files[previous], files[current], o1)
                 /\ pcn_changes' =
                        detect_pcn_changes(files[previous], files[current], o2)
           /\ tracked_changes' =
                 update_tracked_changes(tracked_changes, practice_changes',
                                        pcn_changes', current, today)
    /\ runs' = runs + 1
    /\ pc' = "compared"
    /\ UNCHANGED <<current_pcn, files, today, extracted, report,
                   download_vars>>

\* track_changes.main() when a differ pass raises: the handler of main() logs
\* the error and the run ends before update_tracked_changes
MainFails ==
    /\ runs < MaxRuns
    /\ ~ NoLatest(files)
    /\ ~ NoPrevious(files, latest_file(files))
    /\ DifferRaises(files[previous_file(files, latest_file(files))],
                    files[latest_file(files)])
    /\ new_data' = files[latest_file(files)]
    /\ old_data' = files[previous_file(files, latest_file(files))]
    /\ practice_changes' = <<>>
    /\ pcn_changes' = <<>>
    /\ runs' = runs + 1
    /\ pc' = "failed"
    /\ UNCHANGED <<current_pcn, files, tracked_changes, today, extracted, report,
                   download_vars>>

Next == Tick \/ save_raw_data \/ MainAborts \/ MainCompares \/ MainFails

Spec == Init /\ [][Next]_vars

----------------------------------------------------------------------------
(* Properties *)

Present(data) == DOMAIN data.organisations

InBoth == Present(old_data) \cap Present(new_data)

OldOrg(c) == old_data.organisations[c]
NewOrg(c) == new_data.organisations[c]

\* positions of the records about one organisation, and those of one kind
Recs(changes, c) == {i \in DOMAIN changes : changes[i].ods_code = c}
RecsOfType(changes, c, type) == {i \in Recs(changes, c) : changes[i].type = type}

PracticeDone == pc \in {"practice_done", "done"}
PcnDone == pc = "done"

\* the record a "new" or "closed" change carries
PresenceRecord(type, c, org) ==
    [type |-> type, ods_code |-> c, name |-> org.Name,
     date_of_change |-> org.LastChangeDate]

\* a resolution candidate as section 4.2 defines it
HasEnd(rel) == \E i \in DOMAIN rel.Date : rel.Date[i].End # NoDate
SpecCandidate(rel) ==
    rel.Target.PrimaryRoleId = "RO272" /\ rel.Status = "Active" /\ ~ HasEnd(rel)
StartOf(rel) == IF rel.Date = <<>> THEN NoDate ELSE rel.Date[1].Start

ResolvedRels == OrgOf(new_data, "A").Rels

\* C1: every organisation of the class (GP-practice role for the practice pass,
\* primary network role for the network pass) that is in the old snapshot and
\* absent from the new one gets exactly one "closed" record, carrying the name
\* and last-changed date of the old snapshot.
C1_ClosedEmitted ==
    /\ PracticeDone =>
          \A c \in Present(old_data) \ Present(new_data) :
             IsPractice(OldOrg(c)) =>
                \E i \in DOMAIN practice_changes :
                   /\ RecsOfType(practice_changes, c, "closed_practice") = {i}
                   /\ practice_changes[i] =
                         PresenceRecord("closed_practice", c, OldOrg(c))
    /\ PcnDone =>
          \A c \in Present(old_data) \ Present(new_data) :
             IsPcn(OldOrg(c)) =>
                \E i \in DOMAIN pcn_changes :
                   /\ RecsOfType(pcn_changes, c, "closed_pcn") = {i}
                   /\ pcn_changes[i] = PresenceRecord("closed_pcn", c, OldOrg(c))

\* C2: when the organisation has several resolution candidates, each with a
\* start date, get_current_pcn returns the target of the candidate with the
\* greatest start date, whatever the order of the relationship list.
C2_LatestStartWins ==
    pc = "resolved" =>
       \A k \in DOMAIN ResolvedRels :
          ( /\ SpecCandidate(ResolvedRels[k])
            /\ \A j \in DOMAIN ResolvedRels \ {k} :
                  SpecCandidate(ResolvedRels[j]) =>
                     /\ StartOf(ResolvedRels[j]) # NoDate
                     /\ StartOf(ResolvedRels[j]) < StartOf(ResolvedRels[k]) )
          => current_pcn = ResolvedRels[k].Target.OrgId

\* C3: diffing a snapshot against itself gives an empty change list for both
\* entity classes.
C3_SelfDiffEmpty ==
    old_data = new_data => practice_changes = <<>> /\ pcn_changes = <<>>

C3_Witness ==
    /\ pc = "done"
    /\ old_data = new_data
    /\ \E c \in Present(new_data) :
          /\ IsPractice(NewOrg(c))
          /\ NewOrg(c).Status = "Inactive"
          /\ \E i \in DOMAIN NewOrg(c).Rels : SpecCandidate(NewOrg(c).Rels[i])
    /\ \E c \in Present(new_data) : IsPcn(NewOrg(c))

\* C4: every organisation absent from the old snapshot and present in the new
\* one with the class role gets exactly one "new" record, carrying the name and
\* last-changed date of the new snapshot, and no other record in that pass.
C4_NewEmitted ==
    /\ PracticeDone =>
          \A c \in Present(new_data) \ Present(old_data) :
             IsPractice(NewOrg(c)) =>
                \E i \in DOMAIN practice_changes :
                   /\ Recs(practice_changes, c) = {i}
                   /\ practice_changes[i] =
                         PresenceRecord("new_practice", c, NewOrg(c))
    /\ PcnDone =>
          \A c \in Present(new_data) \ Present(old_data) :
             IsPcn(NewOrg(c)) =>
                \E i \in DOMAIN pcn_changes :
                   /\ Recs(pcn_changes, c) = {i}
                   /\ pcn_changes[i] = PresenceRecord("new_pcn", c, NewOrg(c))

C4_Witness ==
    /\ pc = "done"
    /\ \E c \in Present(new_data) \ Present(old_data) :
          /\ IsPractice(NewOrg(c))
          /\ \E i \in DOMAIN NewOrg(c).Rels : SpecCandidate(NewOrg(c).Rels[i])
          /\ Cardinality(Recs(practice_changes, c)) = 1
    /\ \E c \in Present(new_data) \ Present(old_data) :
          IsPcn(NewOrg(c)) /\ Cardinality(Recs(pcn_changes, c)) = 1

\* what C5 says of the records of one organisation in one pass
StatusRecordsRight(changes, c) ==
    LET st == RecsOfType(changes, c, "status_change")
    IN  /\ OldOrg(c).Status # NewOrg(c).Status =>
              \E i \in DOMAIN changes :
                 /\ st = {i}
                 /\ changes[i].old_status = OldOrg(c).Status
                 /\ changes[i].new_status = NewOrg(c).Status
                 /\ changes[i].date_of_change = NewOrg(c).LastChangeDate
        /\ OldOrg(c).Status = NewOrg(c).Status => st = {}
        /\ \A i \in Recs(changes, c) \ st :
              /\ changes[i].type = "pcn_change"
              /\ get_current_pcn(OldOrg(c)) # get_current_pcn(NewOrg(c))

\* C5: for an organisation in both snapshots that passes the class filter, a
\* status-change record is emitted if and only if the two statuses differ; it is
\* then the only one, it carries the old status, the new status and the new
\* snapshot's last-changed date, and the organisation has no other record in
\* that pass unless its resolved membership changed too.
C5_StatusChangeIff ==
    /\ PracticeDone =>
          \A c \in InBoth :
             IsPractice(NewOrg(c)) => StatusRecordsRight(practice_changes, c)
    /\ PcnDone =>
          \A c \in InBoth :
             IsPcn(NewOrg(c)) =>
                /\ StatusRecordsRight(pcn_changes, c)
                /\ Recs(pcn_changes, c) = RecsOfType(pcn_changes, c, "status_change")

C5_Witness ==
    /\ pc = "done"
    /\ \E c \in InBoth :
          /\ IsPractice(OldOrg(c)) /\ IsPractice(NewOrg(c))
          /\ OldOrg(c).Status = "Active" /\ NewOrg(c).Status = "Inactive"
          /\ OldOrg(c).LastChangeDate # NewOrg(c).LastChangeDate
          /\ Cardinality(Recs(practice_changes, c)) = 1
          /\ Cardinality(RecsOfType(practice_changes, c, "status_change")) = 1

\* C6: for a practice in both snapshots, a pcn_change record is emitted exactly
\* when the network resolved in the old snapshot differs from the one resolved
\* in the new snapshot (one record, none when the resolved codes are equal even
\* if the relationship lists differ), and no status-change record is emitted
\* when the status is unchanged.
C6_MembershipChangeIff ==
    PracticeDone =>
       \A c \in InBoth :
          IsPractice(NewOrg(c)) =>
             LET pr == RecsOfType(practice_changes, c, "pcn_change")
                 differs == get_current_pcn(OldOrg(c)) # get_current_pcn(NewOrg(c))
             IN  /\ differs => Cardinality(pr) = 1
                 /\ ~ differs => pr = {}
                 /\ OldOrg(c).Status = NewOrg(c).Status =>
                       RecsOfType(practice_changes, c, "status_change") = {}

C6_Witness ==
    /\ pc = "done"
    /\ \E c \in InBoth :
          /\ IsPractice(OldOrg(c)) /\ IsPractice(NewOrg(c))
          /\ OldOrg(c).Status = NewOrg(c).Status
          /\ get_current_pcn(OldOrg(c)) = "B"
          /\ get_current_pcn(NewOrg(c)) = "C"
          /\ Cardinality(Recs(practice_changes, c)) = 1
          /\ Cardinality(RecsOfType(practice_changes, c, "pcn_change")) = 1

\* C7: a relationship whose target is not an organisation of the same snapshot
\* is never a candidate: when every Active, open-ended network relationship of
\* the practice points to a code missing from the snapshot, get_current_pcn
\* gives None.
C7_MissingTargetNotCandidate ==
    pc = "resolved" =>
       ( (\A i \in DOMAIN ResolvedRels :
             SpecCandidate(ResolvedRels[i]) =>
                ResolvedRels[i].Target.OrgId \notin Present(new_data))
         => current_pcn = None )

\* C8: an organisation all of whose relationships are non-candidates (status
\* other than Active, or a date interval with an end date, or a target whose
\* primary role is not the network role), or with no relationship at all,
\* resolves to None.
C8_NoCandidateGivesNone ==
    pc = "resolved" =>
       ( (\A i \in DOMAIN ResolvedRels :
             \/ ResolvedRels[i].Status # "Active"
             \/ HasEnd(ResolvedRels[i])
             \/ ResolvedRels[i].Target.PrimaryRoleId # "RO272")
         => current_pcn = None )

C8_Witness ==
    /\ pc = "resolved"
    /\ Len(ResolvedRels) = MaxRels
    /\ \A i \in DOMAIN ResolvedRels : ~ SpecCandidate(ResolvedRels[i])
    /\ \E i \in DOMAIN ResolvedRels :
          /\ ResolvedRels[i].Status = "Active"
          /\ ResolvedRels[i].Target.PrimaryRoleId = "RO272"
          /\ HasEnd(ResolvedRels[i])
    /\ current_pcn = None

\* C9: the class filter is evaluated in the snapshot that holds the
\* organisation: one that is in both snapshots and has the GP-practice role in
\* the old one but not in the new one appears as "closed" in the practice list
\* and has no record in the network list.
C9_FilterWhereHeld ==
    \A c \in InBoth :
       IsPractice(OldOrg(c)) /\ ~ IsPractice(NewOrg(c)) =>
          /\ PracticeDone => RecsOfType(practice_changes, c, "closed_practice") # {}
          /\ PcnDone => Recs(pcn_changes, c) = {}

\* C10: every tracker run that produces at least one change record appends
\* exactly one entry, holding that run's records, after the entries already
\* there, which it leaves as they were (also when the same pair of snapshots
\* was compared before); a run that produces no record, and every other step,
\* leaves the history as it was.
C10_HistoryAppendOnly ==
    [][ IF runs' = runs + 1 /\ (practice_changes' # <<>> \/ pcn_changes' # <<>>)
        THEN /\ Len(tracked_changes') = Len(tracked_changes) + 1
             /\ SubSeq(tracked_changes', 1, Len(tracked_changes)) = tracked_changes
             /\ tracked_changes'[Len(tracked_changes')].practice_changes
                   = practice_changes'
             /\ tracked_changes'[Len(tracked_changes')].pcn_changes = pcn_changes'
        ELSE tracked_changes' = tracked_changes ]_vars

C10_Witness ==
    /\ runs = 3
    /\ pc = "compared"
    /\ practice_changes = <<>> /\ pcn_changes = <<>>
    /\ Len(tracked_changes) = 2
    /\ tracked_changes[1] = tracked_changes[2]

\* number of records of one kind in a change list
KindCount(changes, type) ==
    Cardinality({i \in DOMAIN changes : changes[i].type = type})

\* C11: in every history entry each per-kind count of the summary is the number
\* of records of that kind in the entry's own list, each class total is the sum
\* of the class's per-kind counts, and total_changes is the sum of the two class
\* totals.
C11_SummaryCounts ==
    \A k \in DOMAIN tracked_changes :
       LET e  == tracked_changes[k]
           sp == e.summary.practice_changes
           sn == e.summary.pcn_changes
       IN  /\ sp.new    = KindCount(e.practice_changes, "new_practice")
           /\ sp.closed = KindCount(e.practice_changes, "closed_practice")
           /\ sp.status = KindCount(e.practice_changes, "status_change")
           /\ sp.pcn    = KindCount(e.practice_changes, "pcn_change")
           /\ sn.new    = KindCount(e.pcn_changes, "new_pcn")
           /\ sn.closed = KindCount(e.pcn_changes, "closed_pcn")
           /\ sn.status = KindCount(e.pcn_changes, "status_change")
           /\ sp.total = sp.new + sp.closed + sp.status + sp.pcn
           /\ sn.total = sn.new + sn.closed + sn.status
           /\ e.summary.total_changes = sp.total + sn.total

C11_Witness ==
    /\ pc = "aggregated"
    /\ Len(tracked_changes) = 1
    /\ KindCount(tracked_changes[1].practice_changes, "status_change") = 1
    /\ KindCount(tracked_changes[1].practice_changes, "pcn_change") = 1
    /\ KindCount(tracked_changes[1].pcn_changes, "new_pcn") = 1
    /\ tracked_changes[1].summary.total_changes = 3

\* C12: a tracker run made with fewer than two data files aborts: it produces
\* no change record, does not reach the differ or the aggregator, and leaves
\* the history as it was.
C12_AbortsWithoutTwoSnapshots ==
    [][ (runs' = runs + 1 /\ Cardinality(DOMAIN files) < 2) =>
           /\ pc' = "aborted"
           /\ practice_changes' = <<>>
           /\ pcn_changes' = <<>>
           /\ old_data' = old_data /\ new_data' = new_data
           /\ tracked_changes' = tracked_changes ]_vars

C12_Witness ==
    /\ pc = "aborted"
    /\ runs = 2
    /\ Cardinality(DOMAIN files) = 1
    /\ tracked_changes = <<>>

\* C13: the differ passes, with the resolver and name lookups they make, never
\* change the old or the new snapshot.
C13_SnapshotsUnchanged ==
    [][old_data' = old_data /\ new_data' = new_data]_vars

C13_Witness ==
    /\ pc = "done"
    /\ old_data # new_data
    /\ Present(old_data) # Present(new_data)
    /\ \E i \in DOMAIN practice_changes :
          /\ practice_changes[i].type = "pcn_change"
          /\ practice_changes[i].old_pcn_name # None
          /\ practice_changes[i].new_pcn_name # None
    /\ pcn_changes # <<>>

\* the display name of a resolved network in a snapshot: null when there is no
\* membership or the snapshot has no organisation with that code
DisplayName(data, code) ==
    IF code = None \/ code \notin Present(data) THEN None
    ELSE data.organisations[code].Name

\* C17: every pcn_change record carries the membership resolved in the old and
\* in the new snapshot, the old network's name as the old snapshot has it, the
\* new network's name as the new snapshot has it, and the new snapshot's
\* last-changed date; a side with no membership has a null code and a null name.
C17_MembershipRecordContent ==
    PracticeDone =>
       \A i \in DOMAIN practice_changes :
          practice_changes[i].type = "pcn_change" =>
             LET r == practice_changes[i]
                 c == r.ods_code
             IN  /\ c \in InBoth
                 /\ r.old_pcn = get_current_pcn(OldOrg(c))
                 /\ r.new_pcn = get_current_pcn(NewOrg(c))
                 /\ r.old_pcn_name = DisplayName(old_data, r.old_pcn)
                 /\ r.new_pcn_name = DisplayName(new_data, r.new_pcn)
                 /\ r.date_of_change = NewOrg(c).LastChangeDate
                 /\ r.old_pcn = None => r.old_pcn_name = None
                 /\ r.new_pcn = None => r.new_pcn_name = None

C17_Witness ==
    /\ pc = "done"
    /\ \E i \in DOMAIN practice_changes :
          /\ practice_changes[i].type = "pcn_change"
          /\ practice_changes[i].old_pcn = None
          /\ practice_changes[i].old_pcn_name = None
          /\ practice_changes[i].new_pcn = "B"
          /\ practice_changes[i].new_pcn_name = "B-1"
          /\ "B" \notin Present(old_data)
          /\ practice_changes[i].date_of_change = 2

\* what C18 says of one change list
OnePerKind(changes, newKind, closedKind) ==
    /\ \A i, j \in DOMAIN changes :
          (changes[i].ods_code = changes[j].ods_code
             /\ changes[i].type = changes[j].type) => i = j
    /\ \A i \in DOMAIN changes :
          changes[i].type \in {newKind, closedKind} =>
             Recs(changes, changes[i].ods_code) = {i}

\* C18: in the output of one pass no two records have the same code and the
\* same kind, and a code with a "new" or "closed" record has no other record.
C18_OneRecordPerKind ==
    /\ PracticeDone => OnePerKind(practice_changes, "new_practice", "closed_practice")
    /\ PcnDone => OnePerKind(pcn_changes, "new_pcn", "closed_pcn")

C18_Witness ==
    /\ pc = "done"
    /\ \E c \in Codes : Cardinality(Recs(practice_changes, c)) = 2
    /\ \E i \in DOMAIN pcn_changes :
          /\ pcn_changes[i].type = "new_pcn"
          /\ Recs(pcn_changes, pcn_changes[i].ods_code) = {i}

\* the data files a history entry names
FilesNamed(e) == {e.data_file}

\* C19: every entry appended to the history carries the comparison date and
\* names both data files that were compared, the previous and the latest.
C19_EntryNamesBothFiles ==
    [][ Len(tracked_changes') = Len(tracked_changes) + 1 =>
           LET e == tracked_changes'[Len(tracked_changes')]
               latest == latest_file(files)
           IN  /\ e.date = today
               /\ FilesNamed(e) = {latest, previous_file(files, latest)} ]_vars

\* a practice record in the list encoding throughout, every relationship of
\* the membership kind
ListEncoded(org) ==
    /\ org.single = {}
    /\ \A i \in DOMAIN org.Rels : org.Rels[i].single = {} /\ org.Rels[i].id = "RE8"

\* C16: the Current PCN Code of the report of main.py, the Current PCN Code of
\* extract_practice_data and the result of get_current_pcn are equal for
\* every practice of every snapshot.
C16_PathsAgree ==
    (pc = "reported" /\ ListEncoded(OrgOf(new_data, "A")))
       => /\ extracted.returned = "row"
          /\ extracted.CurrentPCNCode = current_pcn
          /\ report.state = "written"
          /\ report.practices["A"] = current_pcn

\* the same record with every field in the list encoding
AsLists(org) ==
    [org EXCEPT !.single = {},
                !.Rels = [i \in DOMAIN @ |-> [@[i] EXCEPT !.single = {}]]]

\* C15: the membership that get_current_pcn and extract_practice_data resolve
\* for a record with a field sent as one object is the one they resolve for
\* the same record with that field sent as a list of that object.
C15_EncodingsResolveAlike ==
    pc = "reported"
       => /\ current_pcn = get_current_pcn(AsLists(OrgOf(new_data, "A")))
          /\ extracted = extract_practice_data(AsLists(OrgOf(new_data, "A")))

\* C20: in the scan of a practice's relationships by the report, a candidate
\* with the start date of the selected one, or with none, never replaces it,
\* and the scan ends without an error whichever start dates are absent.
C20_ScanKeepsSelectedAndCompletes ==
    pc = "reported"
       => LET joined == PracticeScan(new_data, "A").joined
          IN  /\ report.state = "written"
              /\ \A k \in 2..Len(joined) :
                    /\ joined[k].start_date # NoDate
                    /\ joined[k].start_date # joined[k - 1].start_date

\* C14: a record with a wrongly shaped role field only drops out of its own
\* class: the run over two snapshots completes, and every organisation with
\* well-formed fields that is new in the latest snapshot has its "new" record
\* in the history entry of the run.
C14_MalformedOnlyOmitted ==
    [][ (runs' = runs + 1 /\ Cardinality(DOMAIN files) >= 2) =>
           LET latest == files[latest_file(files)]
               previous == files[previous_file(files, latest_file(files))]
               entry == tracked_changes'[Len(tracked_changes')]
           IN  /\ pc' = "compared"
               /\ \A c \in DOMAIN latest.organisations \ DOMAIN previous.organisations :
                     (latest.organisations[c].single = {}
                         /\ IsPcn(latest.organisations[c]))
                        => /\ Len(tracked_changes') = Len(tracked_changes) + 1
                           /\ \E i \in DOMAIN entry.pcn_changes :
                                 /\ entry.pcn_changes[i].type = "new_pcn"
                                 /\ entry.pcn_changes[i].ods_code = c ]_vars

\* C21: in a written report a practice is in the member_practices of network
\* P exactly when P is its Current PCN Code, and the number of members of P
\* is the number of practices whose Current PCN Code is P.
C21_MembersAreCurrent ==
    (pc = "reported" /\ report.state = "written")
       => \A p \in DOMAIN report.member_practices :
             LET members == report.member_practices[p]
             IN  /\ \A c \in DOMAIN report.practices :
                       (\E k \in DOMAIN members : members[k].ods_code = c)
                          <=> report.practices[c] = p
                 /\ Len(members) =
                       Cardinality({c \in DOMAIN report.practices :
                                       report.practices[c] = p})

\* C22: the total count in the metadata of a saved snapshot is the number of
\* organisation records stored in it.
C22_TotalIsStoredCount ==
    full_data.saved =>
       full_data.total_organisations = Cardinality(full_data.organisations)

\* the organisations of the first k pages, in order
RECURSIVE PagesUpTo(_)
PagesUpTo(k) == IF k = 0 THEN <<>> ELSE PagesUpTo(k - 1) \o pages[k].Organisations

\* the first page that is empty or comes without next-page header
LastPageRead ==
    CHOOSE i \in DOMAIN pages :
        /\ pages[i].Organisations = <<>> \/ ~ pages[i].next_page
        /\ \A j \in 1..(i - 1) : pages[j].Organisations # <<>> /\ pages[j].next_page

\* what C23 says of a state of get_related_orgs
PagingRight ==
    /\ current_url \in 1..LastPageRead
    /\ pc = "start" => current_url = 1 /\ all_orgs = <<>>
    /\ pc = "paging" => all_orgs = PagesUpTo(current_url - 1)
    /\ pc \in {"returned", "saved"} =>
          IF request_error
          THEN all_orgs = PagesUpTo(current_url - 1)
          ELSE current_url = LastPageRead /\ all_orgs = PagesUpTo(LastPageRead)

\* C23: get_related_orgs requests the pages one after the other up to the
\* first that is empty or has no next-page header and returns their
\* organisations in that order; when a request fails it returns those of the
\* pages read before it (none if it is the first); and it always returns.
C23_PagingReturnsPagesRead ==
    /\ [] PagingRight
    /\ [][current_url' \in {current_url, current_url + 1}]_vars
    /\ <> (pc \in {"returned", "saved"})

C23_Witness ==
    /\ pc = "returned"
    /\ request_error
    /\ Len(pages) = 2
    /\ current_url = 2
    /\ all_orgs = pages[1].Organisations
    /\ all_orgs # <<>>
    /\ pages[2].Organisations # <<>>

====
